---- MODULE Spec2Model ----
(***************************************************************************)
(* AgentDriver (src/src/driver/driver.ts): the supervisor that spawns the  *)
(* agi-driver child process, reads its JSON lines, keeps the session state *)
(* and settles the promise returned by start().                            *)
(*                                                                         *)
(* One driver instance is modelled.  Each start() that spawns is a "run"   *)
(* r in 1..MaxRuns; the process it spawns, the readline interface on that  *)
(* process's stdout and the promise it returns all carry the number r.     *)
(* Node runs every callback to completion, so each action below is one     *)
(* callback: a caller operation, a 'line' event, a process 'exit'/'error'  *)
(* event, the grace timer of stop(), or the continuation of an awaited     *)
(* listener.                                                               *)
(***************************************************************************)
EXTENDS Integers, Sequences, FiniteSets, TLC

\* ---------------------------------------------------------------- bounds
MaxRuns == 2        \* start() calls that spawn a process
MaxLines == 2       \* output lines delivered to the driver, all runs together
MaxStep == 1        \* largest step number an event carries
MaxListeners == 1   \* listeners registered per interactive event kind
MaxStops == 1       \* stop() calls that find a process
MaxCalls == 1       \* respondConfirm/respondAnswer/pause/resume/sendScreenshot calls
OpsRuns == 1        \* start() calls that spawn, in the runs with caller commands
AutoListeners == 2  \* listeners per interactive event kind, for the listener loop
MaxStarts == 2      \* AgentLoop.start() calls
MaxResponses == 2   \* step responses the agent service gives an AgentLoop
MaxLoopOps == 3     \* AgentLoop pause(), resume() and stop() calls
MaxRetries == 2     \* largest maxRetries option of an HTTPClient
MaxRequests == 2    \* HTTPClient.request calls
MaxCtxCalls == 3    \* method calls on a SessionContext

\* `private process: ChildProcess | null = null`: the null handle.
Null == 0

Runs == 1..MaxRuns
Steps == 0..MaxStep
ExitCodes == {"0", "1"}

\* ------------------------------------------------------- the wire format
\* DriverState values a state_change event may carry (protocol.ts).
EventStates == {"running", "paused"}

PlainKinds ==
  {"ready", "thinking", "action", "screenshot_captured", "session_created",
   "confirm", "ask_question"}

\* The JSON documents the child may print, one per line.
Events ==
  [event : PlainKinds, step : Steps]
  \cup [event : {"state_change"}, step : Steps, state : EventStates]
  \cup [event : {"finished"}, step : Steps, success : BOOLEAN,
        reason : {"done"}, summary : {"ok"}]
  \cup [event : {"error"}, step : Steps, message : {"boom"}, code : {"x"},
        recoverable : BOOLEAN]

\* A line of stdout: blank, not JSON at all, the JSON literal null, or the
\* text of one event document.
Lines ==
  {[text |-> "blank"], [text |-> "garbage"], [text |-> "null"]}
  \cup [text : {"json"}, doc : Events]

\* parseEvent: JSON.parse and a cast.  It throws on text that is not JSON and
\* returns whatever the text denotes otherwise (null included).
parseEvent(line) ==
  IF line.text = "garbage" THEN [ok |-> FALSE]
  ELSE IF line.text = "null" THEN [ok |-> TRUE, isNull |-> TRUE]
  ELSE [ok |-> TRUE, isNull |-> FALSE, data |-> line.doc]

VARIABLES
  process,        \* this.process: Null or the run whose child it is
  readline,       \* this.readline: Null or the run whose stdout it reads
  state,          \* this.state
  step,           \* this.step
  sessionId,      \* this.sessionId (the run that generated it)
  resolveStart,   \* this.resolveStart: Null or the run whose promise it resolves
  rejectStart,    \* this.rejectStart
  pendingConfirm, \* this.pendingConfirm
  pendingAnswer,  \* this.pendingAnswer
  promise,        \* promise[r]: the promise start() returned for run r
  procs,          \* procs[r]: the child process of run r
  readyOnce,      \* the once('ready') listeners start() registered, in order
  listeners,      \* number of caller listeners per event kind
  handlers,       \* handleLine invocations suspended in an await
  stops,          \* stop() calls suspended in their await, and their timers
  reader,         \* run whose readline is in the middle of a chunk, or Null
  nRuns, nLines, nStops, nCalls,   \* budgets
  heard,          \* per run: did it print a line, and a terminal event
  expected,       \* the state the most recent state-affecting event implies
  stopped,        \* runs whose promise was pending when a completed stop() began
  emitted,        \* what the last callback emitted to listeners
  last            \* the last callback that ran

\* AgentLoop (src/src/loop.ts): one instance, its options and fields, and the
\* start() calls made on it.
VARIABLES
  onAskUser,      \* options.onAskUser was given
  stepDelay,      \* options.stepDelay
  loopState,      \* this._state
  lastResult,     \* this._lastResult
  currentStep,    \* this._currentStep
  pauseResolve,   \* this.pauseResolve: Null or the pause promise it resolves
  pausePromise,   \* this.pausePromise: Null or a pause promise
  released,       \* the pause promises that have been resolved
  calls,          \* the start() calls: where each one is, and its locals
  nResponses, nLoopOps,   \* budgets
  lastLoop        \* the last AgentLoop callback or operation that ran

\* HTTPClient (src/src/http.ts): one client and the request() calls made on it.
VARIABLES
  maxRetries,     \* this.maxRetries
  requests,       \* the request() calls: where each one is, and its locals
  lastHttp        \* the last step of a request() that ran

\* SessionContext (src/src/context/session-context.ts): one context, the method
\* calls made on it, and the sessions of the service it created and deleted.
VARIABLES
  ctxSessionId,   \* this.sessionId: Null or the session it names
  ctxCalls,       \* the method calls: where each one is
  disposal,       \* where [Symbol.asyncDispose]() is
  created,        \* sessions the service created for this context
  deleted         \* sessions the service deleted

clientVars ==
  <<maxRetries, requests, lastHttp, ctxSessionId, ctxCalls, disposal, created,
    deleted>>

loopVars ==
  <<onAskUser, stepDelay, loopState, lastResult, currentStep, pauseResolve,
    pausePromise, released, calls, nResponses, nLoopOps, lastLoop>>

vars ==
  <<process, readline, state, step, sessionId, resolveStart, rejectStart,
    pendingConfirm, pendingAnswer, promise, procs, readyOnce, listeners,
    handlers, stops, reader, nRuns, nLines, nStops, nCalls, heard,
    expected, stopped, emitted, last, loopVars, clientVars>>

\* The driver's own fields, without the model's bookkeeping.
driverVars ==
  <<process, readline, state, step, sessionId, resolveStart, rejectStart,
    pendingConfirm, pendingAnswer, promise, procs, readyOnce, listeners,
    handlers, stops>>

Pending == [status |-> "pending"]
NoPromise == [status |-> "none"]
NoProc ==
  [status |-> "none", killed |-> FALSE, stdin |-> <<>>]

\* `_lastResult = null`, and the `result` of a start() before its first step.
NoResult == [null |-> TRUE]

\* new AgentLoop(options).
LoopNew(ask, delay) ==
  /\ onAskUser = ask
  /\ stepDelay = delay
  /\ loopState = "idle"
  /\ lastResult = NoResult
  /\ currentStep = 0
  /\ pauseResolve = Null
  /\ pausePromise = Null
  /\ released = {}
  /\ calls = <<>>
  /\ nResponses = 0
  /\ nLoopOps = 0
  /\ lastLoop = [op |-> "new"]

\* new AgentDriver(options).
DriverNew ==
  /\ process = Null
  /\ readline = Null
  /\ state = "idle"
  /\ step = 0
  /\ sessionId = Null
  /\ resolveStart = Null
  /\ rejectStart = Null
  /\ pendingConfirm = Null
  /\ pendingAnswer = Null
  /\ promise = [r \in Runs |-> NoPromise]
  /\ procs = [r \in Runs |-> NoProc]
  /\ readyOnce = <<>>
  /\ listeners = [k \in {"confirm", "ask_question", "error"} |-> 0]
  /\ handlers = <<>>
  /\ stops = <<>>
  /\ reader = Null
  /\ nRuns = 0
  /\ nLines = 0
  /\ nStops = 0
  /\ nCalls = 0
  /\ heard = [r \in Runs |-> [spoke |-> FALSE, terminal |-> FALSE]]
  /\ expected = "none"
  /\ stopped = {}
  /\ emitted = <<>>
  /\ last = [op |-> "init"]

\* new HTTPClient(options).
HttpNew(retries) ==
  /\ maxRetries = retries
  /\ requests = <<>>
  /\ lastHttp = [op |-> "new"]

\* new SessionContext(client, agentName), and a service that has created
\* nothing for it.
ContextNew ==
  /\ ctxSessionId = Null
  /\ ctxCalls = <<>>
  /\ disposal = [pc |-> "none", id |-> Null]
  /\ created = {}
  /\ deleted = {}

\* A driver; an AgentLoop, an HTTPClient and a SessionContext left alone.
Init == DriverNew /\ LoopNew(FALSE, 0) /\ HttpNew(3) /\ ContextNew

\* ------------------------------------------------------------ the driver
\* The fields a callback works on, as one value; Commit writes it back.
Drv ==
  [process |-> process, readline |-> readline, state |-> state, step |-> step,
   sessionId |-> sessionId, resolveStart |-> resolveStart,
   rejectStart |-> rejectStart, pendingConfirm |-> pendingConfirm,
   pendingAnswer |-> pendingAnswer, promise |-> promise, procs |-> procs,
   readyOnce |-> readyOnce, handlers |-> handlers, emitted |-> <<>>,
   threw |-> FALSE]

Commit(d) ==
  /\ process' = d.process
  /\ readline' = d.readline
  /\ state' = d.state
  /\ step' = d.step
  /\ sessionId' = d.sessionId
  /\ resolveStart' = d.resolveStart
  /\ rejectStart' = d.rejectStart
  /\ pendingConfirm' = d.pendingConfirm
  /\ pendingAnswer' = d.pendingAnswer
  /\ promise' = d.promise
  /\ procs' = d.procs
  /\ readyOnce' = d.readyOnce
  /\ handlers' = d.handlers
  /\ emitted' = d.emitted

\* ChildProcess.kill(): the signal is sent; the child exits later, if at all.
kill(d, p) ==
  IF d.procs[p].status = "alive"
  THEN [d EXCEPT !.procs[p].killed = TRUE]
  ELSE d

\* Settling a promise that is already settled does nothing.
settle(d, r, outcome) ==
  IF d.promise[r].status = "pending"
  THEN [d EXCEPT !.promise[r] = outcome]
  ELSE d

\* sendCommand: dropped when there is no process, written to its stdin
\* otherwise.
sendCommand(d, cmd) ==
  IF d.process = Null THEN d
  ELSE [d EXCEPT !.procs[d.process].stdin = Append(@, cmd)]

\* cleanup: close the reader, drop the promise callbacks, kill the process and
\* drop its handle, drop the pending continuations.
cleanup(d) ==
  LET d1 == [d EXCEPT !.readline = Null, !.resolveStart = Null,
                      !.rejectStart = Null]
      d2 == IF d1.process # Null
            THEN [kill(d1, d1.process) EXCEPT !.process = Null]
            ELSE d1
  IN [d2 EXCEPT !.pendingConfirm = Null, !.pendingAnswer = Null]

\* EventEmitter.emit for every event but 'error': listeners are notified.
emit(d, name) == [d EXCEPT !.emitted = Append(@, <<name, "">>)]

\* start() that writes the start command at once, without waiting for ready.
start_sendsAtOnce(d, r, goal) ==
  [d EXCEPT !.sessionId = r,
            !.resolveStart = r,
            !.rejectStart = r,
            !.promise[r] = Pending,
            !.process = r,
            !.procs[r] = [NoProc EXCEPT !.status = "alive",
                            !.stdin = <<[command |-> "start", session_id |-> r,
                                         goal |-> goal]>>],
            !.readline = r]

\* start() that also puts the state to running.
start_setsRunning(d, r, goal) ==
  [d EXCEPT !.sessionId = r,
            !.resolveStart = r,
            !.rejectStart = r,
            !.promise[r] = Pending,
            !.process = r,
            !.procs[r] = [NoProc EXCEPT !.status = "alive"],
            !.readline = r,
            !.readyOnce = Append(@, [goal |-> goal]),
            !.state = "running"]

\* start(): throws when a process handle is held; otherwise creates the
\* promise, spawns, attaches the handlers and the reader, and registers the
\* once('ready') listener that will write the start command.  The goal of the
\* r-th call is named r: every call passes a goal of its own.
start(d, r, goal) ==
  [d EXCEPT !.sessionId = r,
            !.resolveStart = r,
            !.rejectStart = r,
            !.promise[r] = Pending,
            !.process = r,
            !.procs[r] = [NoProc EXCEPT !.status = "alive"],
            !.readline = r,
            !.readyOnce = Append(@, [goal |-> goal])]

Start ==
  /\ reader = Null
  /\ IF process # Null
     THEN /\ last' = [op |-> "start", threw |-> TRUE,
                      pendingBefore |-> \E r \in Runs : promise[r].status = "pending"]
          /\ emitted' = <<>>
          /\ UNCHANGED <<loopVars, clientVars, driverVars, reader, nRuns, nLines, nStops, nCalls, heard, expected, stopped>>
     ELSE /\ nRuns < MaxRuns
          /\ Commit(start(Drv, nRuns + 1, nRuns + 1))
          /\ nRuns' = nRuns + 1
          /\ last' = [op |-> "start", threw |-> FALSE,
                      pendingBefore |-> \E r \in Runs : promise[r].status = "pending"]
          /\ UNCHANGED <<loopVars, clientVars, listeners, stops, reader, nLines, nStops, nCalls, heard, expected, stopped>>

\* ------------------------------------------------------------ line handling
\* EventEmitter.emit('error', ...): with no 'error' listener registered the
\* emitter throws instead of notifying anyone.
emitError(d, code) ==
  IF listeners["error"] = 0
  THEN [d EXCEPT !.threw = TRUE]
  ELSE [d EXCEPT !.emitted = Append(@, <<"error", code>>)]

\* emit('ready'): besides the caller's listeners, every once('ready') listener
\* registered by a start() runs, in registration order, and is then removed.
\* Each writes a start command with its own goal and the current sessionId.
emitReady(d) ==
  LET cmds == [i \in 1..Len(d.readyOnce) |->
                 [command |-> "start", session_id |-> d.sessionId,
                  goal |-> d.readyOnce[i].goal]]
      d1 == emit(d, "ready")
  IN IF d1.process = Null
     THEN [d1 EXCEPT !.readyOnce = <<>>]
     ELSE [d1 EXCEPT !.procs[d1.process].stdin = @ \o cmds, !.readyOnce = <<>>]

Resolved(ev) ==
  [status |-> "resolved",
   value |-> [success |-> ev.success, reason |-> ev.reason,
              summary |-> ev.summary, step |-> ev.step]]

Rejected(msg) == [status |-> "rejected", error |-> msg]

\* handleFinished with cleanup() run before the promise is resolved.
handleFinished_cleanupFirst(d, ev) ==
  LET d1 == cleanup(emit([d EXCEPT !.state = "finished"], "finished"))
  IN IF d1.resolveStart # Null
     THEN [settle(d1, d1.resolveStart, Resolved(ev))
             EXCEPT !.resolveStart = Null, !.rejectStart = Null]
     ELSE d1

handleFinished(d, ev) ==
  LET d1 == emit([d EXCEPT !.state = "finished"], "finished")
      d2 == IF d1.resolveStart # Null
            THEN [settle(d1, d1.resolveStart, Resolved(ev))
                    EXCEPT !.resolveStart = Null, !.rejectStart = Null]
            ELSE d1
  IN cleanup(d2)

\* handleError that tears the run down whatever `recoverable` says.
handleError_alwaysFatal(d, ev) ==
  LET d1 == emitError(d, ev.code)
  IN IF d1.threw THEN d1
     ELSE LET d2 == [d1 EXCEPT !.state = "error"]
              d3 == IF d2.rejectStart # Null
                    THEN [settle(d2, d2.rejectStart,
                                 Rejected(<<ev.code, ": ", ev.message>>))
                            EXCEPT !.rejectStart = Null, !.resolveStart = Null]
                    ELSE d2
          IN cleanup(d3)

\* handleError: the listeners are notified; an error that is not recoverable
\* also sets the state, rejects the promise of start() and cleans up.
handleError(d, ev) ==
  LET d1 == emitError(d, ev.code)
  IN IF d1.threw THEN d1
     ELSE IF ~ev.recoverable
     THEN LET d2 == [d1 EXCEPT !.state = "error"]
              d3 == IF d2.rejectStart # Null
                    THEN [settle(d2, d2.rejectStart,
                                 Rejected(<<ev.code, ": ", ev.message>>))
                            EXCEPT !.rejectStart = Null, !.resolveStart = Null]
                    ELSE d2
          IN cleanup(d3)
     ELSE d1

\* case 'confirm' / 'ask_question' up to its first await: the state is set, the
\* listener list is copied, and the first listener is called and awaited.
\* `first` and `manual` are bookkeeping: the first value of the wanted type a
\* listener of this loop resolved to, and whether the caller has responded
\* to the event by hand.
interactive(d, src, kind, waiting) ==
  LET d1 == [d EXCEPT !.state = waiting]
  IN IF listeners[kind] = 0 THEN d1
     ELSE [d1 EXCEPT !.handlers =
             Append(@, [kind |-> kind, from |-> src, i |-> 1,
                        n |-> listeners[kind], handled |-> FALSE,
                        first |-> "none", manual |-> FALSE])]

\* A parse failure treated as fatal: the run is torn down.
parseFailure_teardown(d, line) == cleanup(d)

\* The catch around parseEvent: console.error and return.
parseFailure(d, line) == d

\* handleLine up to its first await, for a line read from the stdout of run
\* src.  threw = TRUE: the returned promise rejects.
handleLine(d, src, line) ==
  IF line.text = "blank" THEN d
  ELSE LET p == parseEvent(line)
       IN IF ~p.ok THEN parseFailure(d, line)
          ELSE IF p.isNull THEN [d EXCEPT !.threw = TRUE]
          ELSE LET ev == p.data
                   d1 == emit([d EXCEPT !.step = ev.step], "event")
               IN CASE ev.event = "ready" -> emitReady(d1)
                    [] ev.event = "state_change" ->
                         emit([d1 EXCEPT !.state = ev.state], "state_change")
                    [] ev.event = "thinking" -> emit(d1, "thinking")
                    [] ev.event = "action" -> emit(d1, "action")
                    [] ev.event = "confirm" ->
                         interactive(d1, src, "confirm", "waiting_confirmation")
                    [] ev.event = "ask_question" ->
                         interactive(d1, src, "ask_question", "waiting_answer")
                    [] ev.event = "screenshot_captured" ->
                         emit(d1, "screenshot_captured")
                    [] ev.event = "finished" -> handleFinished(d1, ev)
                    [] ev.event = "error" -> handleError(d1, ev)
                    [] OTHER -> d1

\* The readline 'line' listener: handleLine(line).catch(emit 'error' with code
\* parse_error).  threw = TRUE in the result: the catch callback threw too, an
\* unhandled rejection.
onLine(d, src, line) ==
  LET d1 == handleLine(d, src, line)
  IN IF d1.threw
     THEN emitError([d1 EXCEPT !.threw = FALSE], "parse_error")
     ELSE d1

IsTerminalLine(line) ==
  /\ line.text = "json"
  /\ \/ line.doc.event = "finished"
     \/ line.doc.event = "error" /\ ~line.doc.recoverable

\* The state the claim about currentState expects after this line.
ExpectedAfter(e, line) ==
  IF line.text # "json" \/ e = "void" THEN e
  ELSE CASE line.doc.event = "state_change" -> line.doc.state
         [] line.doc.event = "confirm" -> "waiting_confirmation"
         [] line.doc.event = "ask_question" -> "waiting_answer"
         [] line.doc.event \in {"finished", "error"} -> "void"
         [] OTHER -> e

\* One 'line' event.  readline emits the lines of a chunk in one synchronous
\* loop (more = TRUE: another line of the same chunk follows), and close()
\* does not stop the lines of the chunk in flight.
HandleLine(line, more) ==
  /\ nLines < MaxLines
  /\ reader # Null \/ readline # Null
  /\ LET src == IF reader # Null THEN reader ELSE readline
         d == onLine(Drv, src, line)
     IN /\ Commit(d)
        /\ heard' = [heard EXCEPT ![src].spoke = TRUE,
                                  ![src].terminal = @ \/ IsTerminalLine(line)]
        /\ reader' = IF more /\ nLines + 1 < MaxLines THEN src ELSE Null
        /\ last' = [op |-> "line", line |-> line, from |-> src,
                    awaiting |-> \E k \in 1..Len(handlers) : handlers[k].from = src,
                    pendingBefore |-> promise[src].status = "pending",
                    unhandled |-> d.threw]
  /\ expected' = ExpectedAfter(expected, line)
  /\ nLines' = nLines + 1
  /\ UNCHANGED <<loopVars, clientVars, listeners, stops, nRuns, nStops, nCalls, stopped>>

\* ------------------------------------------------- awaited listeners
\* What an awaited confirm / ask_question listener produces.
ListenerResults ==
  {[type |-> "boolean", value |-> "true"], [type |-> "boolean", value |-> "false"],
   [type |-> "string", value |-> "an answer"],
   [type |-> "undefined"], [type |-> "throw"]}

\* respondConfirm without the check of the state.
respondConfirm_anyState(d, approved) ==
  IF d.process = Null
  THEN [d EXCEPT !.threw = TRUE]
  ELSE [sendCommand(d, [command |-> "confirm", approved |-> approved])
          EXCEPT !.pendingConfirm = Null]

\* respondConfirm that also puts the state back to running.
respondConfirm_resumesRunning(d, approved) ==
  IF d.process = Null \/ d.state # "waiting_confirmation"
  THEN [d EXCEPT !.threw = TRUE]
  ELSE [sendCommand(d, [command |-> "confirm", approved |-> approved])
          EXCEPT !.pendingConfirm = Null, !.state = "running"]

\* respondConfirm / respondAnswer: throw unless a process is held and the
\* state is the matching waiting state; otherwise write the response.
respondConfirm(d, approved) ==
  IF d.process = Null \/ d.state # "waiting_confirmation"
  THEN [d EXCEPT !.threw = TRUE]
  ELSE [sendCommand(d, [command |-> "confirm", approved |-> approved])
          EXCEPT !.pendingConfirm = Null]

respondAnswer(d, text) ==
  IF d.process = Null \/ d.state # "waiting_answer"
  THEN [d EXCEPT !.threw = TRUE]
  ELSE [sendCommand(d, [command |-> "answer", text |-> text])
          EXCEPT !.pendingAnswer = Null]

RemoveAt(seq, k) ==
  [i \in 1..(Len(seq) - 1) |-> IF i < k THEN seq[i] ELSE seq[i + 1]]

\* The first value of the wanted type offered in loop h, res included.
FirstOffer(h, res) ==
  IF h.first = "none"
        /\ res.type = (IF h.kind = "confirm" THEN "boolean" ELSE "string")
  THEN res.value
  ELSE h.first

\* The continuation of handleLine after the awaited listener k settled with
\* res: respond if the value has the right type and nothing was sent yet (a
\* throw of respond* is swallowed by the catch, before the flag is set), then
\* call the next listener or finish.
resume(d, k, res) ==
  LET h == d.handlers[k]
      wanted == IF h.kind = "confirm" THEN "boolean" ELSE "string"
      tries == res.type = wanted /\ ~h.handled
      d1 == IF ~tries THEN d
            ELSE IF h.kind = "confirm" THEN respondConfirm(d, res.value)
            ELSE respondAnswer(d, res.value)
      handled == h.handled \/ (tries /\ ~d1.threw)
      d2 == [d1 EXCEPT !.threw = FALSE]
  IN IF h.i < h.n
     THEN [d2 EXCEPT !.handlers[k] =
             [h EXCEPT !.i = h.i + 1, !.handled = handled,
                       !.first = FirstOffer(h, res)]]
     ELSE [d2 EXCEPT !.handlers = RemoveAt(@, k)]

ListenerSettles(k, res) ==
  /\ reader = Null
  /\ k \in 1..Len(handlers)
  /\ Commit(resume(Drv, k, res))
  /\ last' = [op |-> "listener", kind |-> handlers[k].kind, res |-> res,
              wrote |-> procs' # procs, again |-> handlers[k].handled,
              manual |-> handlers[k].manual, from |-> handlers[k].from,
              first |-> FirstOffer(handlers[k], res)]
  /\ UNCHANGED <<loopVars, clientVars, listeners, stops, reader, nRuns, nLines, nStops, nCalls, heard, expected, stopped>>

\* on(kind, listener), called by the user of the driver.
RegisterListener(kind, cap) ==
  /\ reader = Null
  /\ listeners[kind] < cap
  /\ listeners' = [listeners EXCEPT ![kind] = @ + 1]
  /\ last' = [op |-> "on", kind |-> kind]
  /\ emitted' = <<>>
  /\ UNCHANGED <<loopVars, clientVars, process, readline, state, step, sessionId, resolveStart,
                 rejectStart, pendingConfirm, pendingAnswer, promise, procs,
                 readyOnce, handlers, stops, reader, nRuns, nLines, nStops, nCalls,
                 heard, expected, stopped>>

\* ------------------------------------------------- process events, stop()
\* The process 'exit' listener registered by start().
onExit(d, code) ==
  LET d1 == cleanup(d)
  IN IF d1.rejectStart # Null
     THEN [settle(d1, d1.rejectStart, Rejected(<<"Driver exited with code ", code>>))
             EXCEPT !.rejectStart = Null, !.resolveStart = Null]
     ELSE d1

\* The process 'error' listener registered by start().
onProcessError(d, err) ==
  LET d1 == cleanup(d)
  IN IF d1.rejectStart # Null
     THEN [settle(d1, d1.rejectStart, Rejected(<<err>>))
             EXCEPT !.rejectStart = Null, !.resolveStart = Null]
     ELSE d1

\* The stop() calls whose await ends when process p exits.
WaitingOn(p) == {k \in 1..Len(stops) : stops[k].waiting /\ stops[k].proc = p}

RunsOf(ks) == {stops[k].run : k \in ks} \ {Null}

\* stop() entries with neither an await nor a timer left are gone.
Live(seq) == SelectSeq(seq, LAMBDA e : e.waiting \/ e.timer)

\* Child p exits: the listener of start() runs, then the once('exit')
\* listener of every stop() that waits for p, whose continuation is cleanup().
ProcExit(p, code) ==
  /\ reader = Null
  /\ procs[p].status = "alive"
  /\ LET d0 == [Drv EXCEPT !.procs[p].status = "exited"]
         d1 == onExit(d0, code)
         d2 == IF WaitingOn(p) # {} THEN cleanup(d1) ELSE d1
     IN Commit(d2)
  /\ stops' = [k \in 1..Len(stops) |->
                 IF k \in WaitingOn(p) THEN [stops[k] EXCEPT !.waiting = FALSE]
                 ELSE stops[k]]
  /\ stopped' = stopped \cup RunsOf(WaitingOn(p))
  /\ last' = [op |-> "exit", proc |-> p, code |-> code,
              ended |-> WaitingOn(p) # {}]
  /\ UNCHANGED <<loopVars, clientVars, listeners, reader, nRuns, nLines, nStops, nCalls, heard, expected>>

\* Child p could not be spawned: 'error' is emitted and no 'exit' follows.
ProcError(p) ==
  /\ reader = Null
  /\ procs[p].status = "alive"
  /\ ~heard[p].spoke
  /\ Commit(onProcessError([Drv EXCEPT !.procs[p].status = "failed"], "ENOENT"))
  /\ last' = [op |-> "spawn_error", proc |-> p]
  /\ UNCHANGED <<loopVars, clientVars, listeners, stops, reader, nRuns, nLines, nStops, nCalls, heard, expected, stopped>>

\* stop(): nothing without a process; otherwise the stop command is written,
\* and the call waits for the exit of the current process or for the timer.
StopCall ==
  /\ reader = Null
  /\ IF process = Null
     THEN /\ last' = [op |-> "stop", noop |-> TRUE]
          /\ emitted' = <<>>
          /\ UNCHANGED <<loopVars, clientVars, driverVars, reader, nRuns, nLines, nStops, nCalls, heard, expected, stopped>>
     ELSE /\ nStops < MaxStops
          /\ Commit(sendCommand(Drv, [command |-> "stop"]))
          /\ stops' = Append(stops,
               [proc |-> process, waiting |-> TRUE, timer |-> TRUE,
                run |-> IF promise[process].status = "pending"
                        THEN process ELSE Null])
          /\ nStops' = nStops + 1
          /\ last' = [op |-> "stop", noop |-> FALSE]
          /\ UNCHANGED <<loopVars, clientVars, listeners, reader, nRuns, nLines, nCalls, heard, expected, stopped>>

\* A timer that only kills: the await of stop() is left to the 'exit' event.
StopTimer_killOnly(k) ==
  /\ reader = Null
  /\ k \in 1..Len(stops)
  /\ stops[k].timer
  /\ Commit(IF process # Null THEN kill(Drv, process) ELSE Drv)
  /\ stops' = Live([stops EXCEPT ![k].timer = FALSE])
  /\ last' = [op |-> "timer", wasWaiting |-> FALSE, proc |-> stops[k].proc]
  /\ UNCHANGED <<loopVars, clientVars, listeners, reader, nRuns, nLines, nStops, nCalls, heard,
                 expected, stopped>>

\* The timer of stop() k fires: whatever process the driver holds now is
\* killed, and if the call still waits its await ends and cleanup() runs.
StopTimer(k) ==
  /\ reader = Null
  /\ k \in 1..Len(stops)
  /\ stops[k].timer
  /\ LET d1 == IF process # Null THEN kill(Drv, process) ELSE Drv
         d2 == IF stops[k].waiting THEN cleanup(d1) ELSE d1
     IN Commit(d2)
  /\ stops' = Live([stops EXCEPT ![k].timer = FALSE, ![k].waiting = FALSE])
  /\ stopped' = IF stops[k].waiting THEN stopped \cup RunsOf({k}) ELSE stopped
  /\ last' = [op |-> "timer", wasWaiting |-> stops[k].waiting,
              proc |-> stops[k].proc]
  /\ UNCHANGED <<loopVars, clientVars, listeners, reader, nRuns, nLines, nStops, nCalls, heard, expected>>

\* ------------------------------------------------- caller commands
\* A caller operation that ran to its return or to its throw with the driver
\* fields d.
Called(op, d) ==
  /\ Commit([d EXCEPT !.threw = FALSE])
  /\ last' = [op |-> op, threw |-> d.threw, started |-> nRuns > 0,
              held |-> process # Null, was |-> state]
  /\ nCalls' = nCalls + 1
  /\ UNCHANGED <<loopVars, clientVars, listeners, stops, reader, nRuns, nLines, nStops, heard,
                 expected, stopped>>

\* Bookkeeping: the events of this kind whose listeners are still awaited
\* have been responded to by the caller, unless the call threw.
Responded(d, kind) ==
  IF d.threw THEN d
  ELSE [d EXCEPT !.handlers =
          [k \in 1..Len(@) |->
             IF @[k].kind = kind THEN [@[k] EXCEPT !.manual = TRUE] ELSE @[k]]]

\* respondConfirm(approved), called by the user of the driver.
RespondConfirm(approved) ==
  /\ reader = Null
  /\ nCalls < MaxCalls
  /\ Called("respondConfirm", Responded(respondConfirm(Drv, approved), "confirm"))

\* respondAnswer(text), called by the user of the driver.
RespondAnswer(text) ==
  /\ reader = Null
  /\ nCalls < MaxCalls
  /\ Called("respondAnswer", Responded(respondAnswer(Drv, text), "ask_question"))

\* sendScreenshot: throws without a process handle, writes the command
\* otherwise.
sendScreenshot(d) ==
  IF d.process = Null THEN [d EXCEPT !.threw = TRUE]
  ELSE sendCommand(d, [command |-> "screenshot"])

SendScreenshot ==
  /\ reader = Null
  /\ nCalls < MaxCalls
  /\ Called("sendScreenshot", sendScreenshot(Drv))

\* pause() / resume(): return without a process handle, write the command
\* otherwise.
pauseResume(d, cmd) ==
  IF d.process = Null THEN d
  ELSE sendCommand(d, [command |-> cmd])

PauseResume(cmd) ==
  /\ reader = Null
  /\ nCalls < MaxCalls
  /\ Called(cmd, pauseResume(Drv, cmd))

Next ==
  \/ Start
  \/ \E line \in Lines, more \in BOOLEAN : HandleLine(line, more)
  \/ \E k \in 1..MaxLines, res \in ListenerResults : ListenerSettles(k, res)
  \/ \E kind \in {"confirm", "ask_question", "error"} : RegisterListener(kind, MaxListeners)
  \/ \E p \in Runs, code \in ExitCodes : ProcExit(p, code)
  \/ \E p \in Runs : ProcError(p)
  \/ StopCall
  \/ \E k \in 1..MaxStops : StopTimer(k)

Spec == Init /\ [][Next]_vars

\* ------------------------------------- the driver with caller commands
\* The lines the child prints in the runs where the caller also issues
\* commands: one line of each kind that handleLine distinguishes by its
\* effect on the driver's fields.
OpsEvents ==
  [event : {"ready", "confirm", "ask_question"}, step : {MaxStep}]
  \cup [event : {"state_change"}, step : {MaxStep}, state : {"running"}]
  \cup [event : {"finished"}, step : {MaxStep}, success : {TRUE},
        reason : {"done"}, summary : {"ok"}]
  \cup [event : {"error"}, step : {MaxStep}, message : {"boom"}, code : {"x"},
        recoverable : BOOLEAN]

OpsLines == {[text |-> "garbage"]} \cup [text : {"json"}, doc : OpsEvents]

NextOps ==
  \/ Start /\ nRuns' <= OpsRuns
  \/ \E line \in OpsLines, more \in BOOLEAN : HandleLine(line, more)
  \/ \E k \in 1..MaxLines, res \in ListenerResults : ListenerSettles(k, res)
  \/ \E kind \in {"confirm", "ask_question", "error"} :
       RegisterListener(kind, MaxListeners)
  \/ \E p \in Runs, code \in ExitCodes : ProcExit(p, code)
  \/ \E p \in Runs : ProcError(p)
  \/ StopCall
  \/ \E k \in 1..MaxStops : StopTimer(k)
  \/ \E approved \in {"true", "false"} : RespondConfirm(approved)
  \/ RespondAnswer("typed")
  \/ SendScreenshot
  \/ \E cmd \in {"pause", "resume"} : PauseResume(cmd)

SpecOps == Init /\ [][NextOps]_vars

\* setTimeout fires its callback, and readline's loop over the lines of a
\* chunk runs to its end: the timer of a stop() is not postponed for ever.
ChunkGoesOn == reader # Null /\ \E line \in OpsLines, more \in BOOLEAN : HandleLine(line, more)

SpecOpsFair ==
  /\ SpecOps
  /\ WF_vars(\E k \in 1..MaxStops : StopTimer(k))
  /\ WF_vars(ChunkGoesOn)

\* ------------------------------------- the driver's listener loop alone
\* Several listeners per interactive event, the events that start a listener
\* loop, and the exits and restarts that may happen while a loop is
\* suspended.
AutoLines ==
  [text : {"json"}, doc : [event : {"confirm", "ask_question"}, step : {MaxStep}]]

NextAuto ==
  \/ Start
  \/ \E line \in AutoLines, more \in BOOLEAN : HandleLine(line, more)
  \/ \E k \in 1..MaxLines, res \in ListenerResults : ListenerSettles(k, res)
  \/ \E kind \in {"confirm", "ask_question"} :
       RegisterListener(kind, AutoListeners)
  \/ \E p \in Runs, code \in ExitCodes : ProcExit(p, code)

SpecAuto == Init /\ [][NextAuto]_vars

\* ---------------------------------------------------------- the AgentLoop
\* Everything of the driver, which an AgentLoop does not touch.
driverSide ==
  <<driverVars, reader, nRuns, nLines, nStops, nCalls, heard, expected,
    stopped, emitted, last>>

\* What client.sessions.step answers: the step number, whether the task is
\* finished, whether the agent asks the user, whether there are actions.
Responses ==
  [step : 1..MaxResponses, finished : BOOLEAN, askUser : BOOLEAN,
   actions : BOOLEAN]

\* The fields a continuation of start() works on, as one value.
Lp ==
  [state |-> loopState, lastResult |-> lastResult, currentStep |-> currentStep,
   pauseResolve |-> pauseResolve, pausePromise |-> pausePromise,
   released |-> released, calls |-> calls]

LoopCommit(l) ==
  /\ loopState' = l.state
  /\ lastResult' = l.lastResult
  /\ currentStep' = l.currentStep
  /\ pauseResolve' = l.pauseResolve
  /\ pausePromise' = l.pausePromise
  /\ released' = l.released
  /\ calls' = l.calls
  /\ UNCHANGED <<onAskUser, stepDelay, driverSide, clientVars>>

\* `return result`: the promise of call c resolves.
returns(l, c, result) ==
  [l EXCEPT !.calls[c].pc = "returned", !.calls[c].result = result]

\* The catch of start(): the state becomes stopped and the promise rejects.
throws(l, c) ==
  [l EXCEPT !.state = "stopped", !.calls[c].pc = "threw"]

\* The code after the while loop: the last result, or an empty response.
afterLoop(l, c) ==
  returns(l, c,
          IF l.calls[c].result = NoResult
          THEN [step |-> l.currentStep, finished |-> TRUE, askUser |-> FALSE,
                actions |-> FALSE]
          ELSE l.calls[c].result)

\* `while (this._state === 'running')` and the body up to its first await:
\* the await of the pause promise if there is one, else captureScreenshot().
whileTop(l, c) ==
  IF l.state # "running" THEN afterLoop(l, c)
  ELSE IF l.pausePromise # Null
  THEN [l EXCEPT !.calls[c].pc = "paused", !.calls[c].waits = l.pausePromise]
  ELSE [l EXCEPT !.calls[c].pc = "capture"]

\* After `await this.pausePromise`: break unless running or paused, `continue`
\* (back to the loop condition) if paused, else captureScreenshot().
afterPause(l, c) ==
  LET l1 == [l EXCEPT !.calls[c].waits = Null]
  IN IF l1.state \notin {"running", "paused"} THEN afterLoop(l1, c)
     ELSE IF l1.state = "paused" THEN whileTop(l1, c)
     ELSE [l1 EXCEPT !.calls[c].pc = "capture"]

\* After executeActions: return if the response said finished, else the
\* delay if one is configured, else the next iteration.
afterExecute(l, c) ==
  IF l.calls[c].result.finished
  THEN returns([l EXCEPT !.state = "finished"], c, l.calls[c].result)
  ELSE IF stepDelay > 0 THEN [l EXCEPT !.calls[c].pc = "delay"]
  ELSE whileTop(l, c)

\* After the ask_user part: executeActions if there are actions.
afterAsk(l, c) ==
  IF l.calls[c].result.actions THEN [l EXCEPT !.calls[c].pc = "execute"]
  ELSE afterExecute(l, c)

\* afterStep that goes on with the actions when nobody can be asked.
afterStep_ignoresQuestion(l, c, res) ==
  LET l1 == [l EXCEPT !.calls[c].msg = "none", !.calls[c].result = res,
                      !.lastResult = res, !.currentStep = res.step]
  IN IF res.askUser /\ onAskUser THEN [l1 EXCEPT !.calls[c].pc = "askUser"]
     ELSE afterAsk(l1, c)

\* After `await step(...)`: the result is stored, the thinking and step
\* callbacks are notified, and a question is passed to onAskUser; without
\* that handler the state becomes stopped and start() returns the response.
afterStep(l, c, res) ==
  LET l1 == [l EXCEPT !.calls[c].msg = "none", !.calls[c].result = res,
                      !.lastResult = res, !.currentStep = res.step]
  IN IF res.askUser
     THEN IF onAskUser THEN [l1 EXCEPT !.calls[c].pc = "askUser"]
          ELSE returns([l1 EXCEPT !.state = "stopped"], c, res)
     ELSE afterAsk(l1, c)

\* start(message) up to its first await.  It refuses when the state is
\* running; otherwise the state becomes running and the loop is entered.
loopStart(l, msg) ==
  LET c == Len(l.calls) + 1
      l1 == [l EXCEPT !.calls =
               Append(@, [pc |-> "entered", result |-> NoResult, msg |-> msg,
                          waits |-> Null, halted |-> FALSE])]
  IN IF l.state = "running" THEN [l1 EXCEPT !.calls[c].pc = "refused"]
     ELSE whileTop([l1 EXCEPT !.state = "running"], c)

\* The start() calls that have neither returned nor thrown.
Active == {c \in 1..Len(calls) : calls[c].pc \notin {"returned", "threw", "refused"}}

\* What a continuation of call c did, for the record.
Moved(l, c) ==
  [op |-> CASE l.calls[c].pc = "returned" -> "return"
            [] l.calls[c].pc = "threw" -> "throw"
            [] OTHER -> "continue",
   call |-> c, from |-> calls[c].pc, was |-> loopState]

LoopStart(msg) ==
  /\ Len(calls) < MaxStarts
  /\ LoopCommit(loopStart(Lp, msg))
  /\ lastLoop' = [op |-> "start", call |-> Len(calls) + 1, was |-> loopState,
                  others |-> Active # {},
                  refused |-> calls'[Len(calls) + 1].pc = "refused"]
  /\ UNCHANGED <<nResponses, nLoopOps>>

\* captureScreenshot() settles: step() is called with the screenshot, or the
\* rejection is caught.
CaptureDone(c, ok) ==
  /\ c \in 1..Len(calls)
  /\ calls[c].pc = "capture"
  /\ LET l == IF ok THEN [Lp EXCEPT !.calls[c].pc = "step"] ELSE throws(Lp, c)
     IN LoopCommit(l) /\ lastLoop' = Moved(l, c)
  /\ UNCHANGED <<nResponses, nLoopOps>>

\* client.sessions.step() resolves with a response.
StepDone(c, res) ==
  /\ c \in 1..Len(calls)
  /\ calls[c].pc = "step"
  /\ nResponses < MaxResponses
  /\ res.step = nResponses + 1
  /\ LET l == afterStep(Lp, c, res)
     IN LoopCommit(l) /\ lastLoop' = Moved(l, c)
  /\ nResponses' = nResponses + 1
  /\ UNCHANGED nLoopOps

\* client.sessions.step() rejects.
StepFails(c) ==
  /\ c \in 1..Len(calls)
  /\ calls[c].pc = "step"
  /\ LET l == throws(Lp, c)
     IN LoopCommit(l) /\ lastLoop' = Moved(l, c)
  /\ UNCHANGED <<nResponses, nLoopOps>>

\* onAskUser() settles: the answer is the message of the next step.
AskUserDone(c, ok) ==
  /\ c \in 1..Len(calls)
  /\ calls[c].pc = "askUser"
  /\ LET l == IF ok THEN afterAsk([Lp EXCEPT !.calls[c].msg = "answer"], c)
              ELSE throws(Lp, c)
     IN LoopCommit(l) /\ lastLoop' = Moved(l, c)
  /\ UNCHANGED <<nResponses, nLoopOps>>

\* executeActions() settles.
ExecuteDone(c, ok) ==
  /\ c \in 1..Len(calls)
  /\ calls[c].pc = "execute"
  /\ LET l == IF ok THEN afterExecute(Lp, c) ELSE throws(Lp, c)
     IN LoopCommit(l) /\ lastLoop' = Moved(l, c)
  /\ UNCHANGED <<nResponses, nLoopOps>>

\* The delay between steps is over.
DelayDone(c) ==
  /\ c \in 1..Len(calls)
  /\ calls[c].pc = "delay"
  /\ LET l == whileTop(Lp, c)
     IN LoopCommit(l) /\ lastLoop' = Moved(l, c)
  /\ UNCHANGED <<nResponses, nLoopOps>>

\* The pause promise call c awaits has been resolved.
PauseReleased(c) ==
  /\ c \in 1..Len(calls)
  /\ calls[c].pc = "paused"
  /\ calls[c].waits \in released
  /\ LET l == afterPause(Lp, c)
     IN LoopCommit(l) /\ lastLoop' = Moved(l, c)
  /\ UNCHANGED <<nResponses, nLoopOps>>

\* pause(): only from running; the state becomes paused and a new pause
\* promise is created.
pause(l, id) ==
  IF l.state # "running" THEN l
  ELSE [l EXCEPT !.state = "paused", !.pausePromise = id, !.pauseResolve = id]

\* The pause promise is resolved, if there is one, and forgotten.
release(l) ==
  IF l.pauseResolve = Null THEN l
  ELSE [l EXCEPT !.released = @ \cup {l.pauseResolve}, !.pauseResolve = Null,
                 !.pausePromise = Null]

\* resume(): only from paused; the state becomes running.
loopResume(l) ==
  IF l.state # "paused" THEN l
  ELSE release([l EXCEPT !.state = "running"])

\* stop(): the state becomes stopped.
stop(l) == release([l EXCEPT !.state = "stopped"])

LoopPause ==
  /\ nLoopOps < MaxLoopOps
  /\ LoopCommit(pause(Lp, nLoopOps + 1))
  /\ lastLoop' = [op |-> "pause", was |-> loopState, during |-> Active]
  /\ nLoopOps' = nLoopOps + 1
  /\ UNCHANGED nResponses

LoopResume ==
  /\ nLoopOps < MaxLoopOps
  /\ LoopCommit(loopResume(Lp))
  /\ lastLoop' = [op |-> "resume", was |-> loopState, during |-> Active]
  /\ nLoopOps' = nLoopOps + 1
  /\ UNCHANGED nResponses

\* Bookkeeping: stop() was called while these start() calls were in progress.
Halted(l) ==
  [l EXCEPT !.calls =
     [c \in 1..Len(@) |->
        IF @[c].pc \in {"returned", "threw", "refused"} THEN @[c]
        ELSE [@[c] EXCEPT !.halted = TRUE]]]

LoopStop ==
  /\ nLoopOps < MaxLoopOps
  /\ LoopCommit(Halted(stop(Lp)))
  /\ lastLoop' = [op |-> "stop", was |-> loopState, during |-> Active]
  /\ nLoopOps' = nLoopOps + 1
  /\ UNCHANGED nResponses

InitLoop ==
  /\ DriverNew
  /\ HttpNew(3)
  /\ ContextNew
  /\ \E ask \in BOOLEAN, delay \in {0, 100} : LoopNew(ask, delay)

NextLoop ==
  \/ \E msg \in {"none", "goal"} : LoopStart(msg)
  \/ \E c \in 1..MaxStarts, ok \in BOOLEAN : CaptureDone(c, ok)
  \/ \E c \in 1..MaxStarts, res \in Responses : StepDone(c, res)
  \/ \E c \in 1..MaxStarts : StepFails(c)
  \/ \E c \in 1..MaxStarts, ok \in BOOLEAN : AskUserDone(c, ok)
  \/ \E c \in 1..MaxStarts, ok \in BOOLEAN : ExecuteDone(c, ok)
  \/ \E c \in 1..MaxStarts : DelayDone(c)
  \/ \E c \in 1..MaxStarts : PauseReleased(c)
  \/ LoopPause
  \/ LoopResume
  \/ LoopStop

SpecLoop == InitLoop /\ [][NextLoop]_vars

\* --------------------------------------------------------- the HTTPClient
\* What one fetch() of request() comes to: it rejects (the network failed),
\* it is aborted by the timeout timer, or it resolves with a response.  Of a
\* response the status and what its body holds matter: a JSON object, a JSON
\* string, the JSON value null, or text that is not JSON.
Statuses == {200, 304, 400, 401, 404, 422, 429, 500, 503}

Bodies == {"object", "string", "null", "not_json"}

Outcomes ==
  {[kind |-> "network"], [kind |-> "timeout"]}
    \cup [kind : {"response"}, status : Statuses, body : Bodies]

\* An error value: its class chain reaches AGIError or not, and AGIError
\* carries `statusCode` (Null: undefined).
AGIError(name, statusCode) ==
  [agi |-> TRUE, name |-> name, statusCode |-> statusCode]

OtherError(name) == [agi |-> FALSE, name |-> name, statusCode |-> Null]

\* `let lastError: Error | undefined`: no error yet.
NoError == [agi |-> FALSE, name |-> "undefined", statusCode |-> Null]

\* response.ok
ok(response) == response.status >= 200 /\ response.status <= 299

\* response.json(): the body is read, then parsed.
json(response) == response.body # "not_json"

\* handleErrorResponse: what it throws.  It reads the body with json(); when
\* that fails it calls text() on the body json() has consumed, which rejects
\* with a TypeError.  Looking up `.message` of the value null throws a
\* TypeError as well.  Otherwise the error class follows the status.
handleErrorResponse(response) ==
  IF ~json(response) THEN OtherError("TypeError")
  ELSE IF response.body = "null" THEN OtherError("TypeError")
  ELSE CASE response.status = 401 -> AGIError("AuthenticationError", 401)
         [] response.status = 404 -> AGIError("NotFoundError", 404)
         [] response.status = 422 -> AGIError("ValidationError", 422)
         [] response.status = 429 -> AGIError("RateLimitError", 429)
         [] OTHER -> AGIError("AGIError", response.status)

\* The try block of one attempt: it returns the data or throws.
attempt(o) ==
  CASE o.kind = "network" -> [returned |-> FALSE, error |-> OtherError("TypeError")]
    [] o.kind = "timeout" -> [returned |-> FALSE, error |-> OtherError("AbortError")]
    [] OTHER ->
         IF ~ok(o) THEN [returned |-> FALSE, error |-> handleErrorResponse(o)]
         ELSE IF json(o) THEN [returned |-> TRUE]
         ELSE [returned |-> FALSE, error |-> OtherError("SyntaxError")]

\* A request() call: where it is, its loop counter, its lastError, the
\* fetches it has made and the delay of the sleep it is in.
NewRequest ==
  [pc |-> "fetch", attempt |-> 0, lastError |-> NoError, fetches |-> 0,
   delay |-> 0, error |-> NoError]

thrown(q, error) == [q EXCEPT !.pc = "thrown", !.error = error]

\* The statement after the loop.
afterRetries(q) ==
  thrown(q, IF q.lastError # NoError THEN q.lastError
            ELSE AGIError("AGIError", Null))

\* The test of the for loop, and the fetch of the iteration it admits.
forTest(q) ==
  IF q.attempt <= maxRetries
  THEN [q EXCEPT !.pc = "fetch"]
  ELSE afterRetries(q)

\* Two to the n-th.
RECURSIVE pow2(_)
pow2(n) == IF n = 0 THEN 1 ELSE 2 * pow2(n - 1)

\* The catch block: client errors other than 429 are thrown again; after
\* the last attempt the loop is left; otherwise the call sleeps.
catch(q, error) ==
  LET q1 == [q EXCEPT !.lastError = error]
  IN IF error.agi /\ error.statusCode # Null /\ error.statusCode < 500
        /\ error.statusCode # 429
     THEN thrown(q1, error)
     ELSE IF q1.attempt = maxRetries THEN afterRetries(q1)
     ELSE [q1 EXCEPT !.pc = "sleep", !.delay = pow2(q1.attempt) * 1000]

HttpUnchanged ==
  UNCHANGED <<loopVars, driverSide, ctxSessionId, ctxCalls, disposal, created,
              deleted>>

\* request(method, path) up to its first fetch.
Request ==
  /\ Len(requests) < MaxRequests
  /\ requests' = Append(requests, forTest(NewRequest))
  /\ lastHttp' = [op |-> "request", call |-> Len(requests) + 1]
  /\ UNCHANGED maxRetries
  /\ HttpUnchanged

\* The fetch of call c settles with outcome o, and the call runs to its
\* return, to its throw or to its sleep.
FetchDone(c, o) ==
  /\ c \in 1..Len(requests)
  /\ requests[c].pc = "fetch"
  /\ LET q == [requests[c] EXCEPT !.fetches = @ + 1]
         r == attempt(o)
     IN requests' = [requests EXCEPT ![c] =
          IF r.returned THEN [q EXCEPT !.pc = "returned"]
          ELSE catch(q, r.error)]
  /\ lastHttp' = [op |-> "fetch", call |-> c, outcome |-> o]
  /\ UNCHANGED maxRetries
  /\ HttpUnchanged

\* The sleep of call c ends: attempt++ and the loop test.
SleepDone(c) ==
  /\ c \in 1..Len(requests)
  /\ requests[c].pc = "sleep"
  /\ requests' = [requests EXCEPT ![c] = forTest([@ EXCEPT !.attempt = @ + 1])]
  /\ lastHttp' = [op |-> "sleep", call |-> c]
  /\ UNCHANGED maxRetries
  /\ HttpUnchanged

InitHttp ==
  /\ DriverNew
  /\ LoopNew(FALSE, 0)
  /\ ContextNew
  /\ \E retries \in 0..MaxRetries : HttpNew(retries)

NextHttp ==
  \/ Request
  \/ \E c \in 1..MaxRequests, o \in Outcomes : FetchDone(c, o)
  \/ \E c \in 1..MaxRequests : SleepDone(c)

SpecHttp == InitHttp /\ [][NextHttp]_vars

\* ------------------------------------------------------ the SessionContext
CtxUnchanged == UNCHANGED <<loopVars, driverSide, maxRetries, requests, lastHttp>>

\* ensureSession up to its first await, for a method call: with a session id
\* it returns and the method goes on to its request; without one it calls
\* client.sessions.create and waits.
ensureSession == IF ctxSessionId # Null THEN "operating" ELSE "creating"

\* Any public method (runTask, sendMessage, getStatus, ..., screenshot), up to
\* the first request it waits for.
CtxCall ==
  /\ Len(ctxCalls) < MaxCtxCalls
  /\ disposal.pc = "none"
  /\ ctxCalls' = Append(ctxCalls, [pc |-> ensureSession, used |-> ctxSessionId])
  /\ UNCHANGED <<ctxSessionId, disposal, created, deleted>>
  /\ CtxUnchanged

\* client.sessions.create of call c settles.  Resolved: the service has
\* created a session (the n-th is named n), ensureSession stores its id and
\* the method goes on with this.sessionId.  Rejected: the method rejects.
CreateDone(c, accepted) ==
  /\ c \in 1..Len(ctxCalls)
  /\ ctxCalls[c].pc = "creating"
  /\ IF accepted
     THEN LET id == Cardinality(created) + 1
          IN /\ created' = created \cup {id}
             /\ ctxSessionId' = id
             /\ ctxCalls' = [ctxCalls EXCEPT ![c] = [pc |-> "operating", used |-> id]]
     ELSE /\ ctxCalls' = [ctxCalls EXCEPT ![c].pc = "failed"]
          /\ UNCHANGED <<created, ctxSessionId>>
  /\ UNCHANGED <<disposal, deleted>>
  /\ CtxUnchanged

\* The request of the method itself settles, and the method with it.
OperationDone(c, accepted) ==
  /\ c \in 1..Len(ctxCalls)
  /\ ctxCalls[c].pc = "operating"
  /\ ctxCalls' = [ctxCalls EXCEPT ![c].pc = IF accepted THEN "done" ELSE "failed"]
  /\ UNCHANGED <<ctxSessionId, disposal, created, deleted>>
  /\ CtxUnchanged

\* [Symbol.asyncDispose]() up to its await: with a session id it asks the
\* service to delete that session, without one it returns.
asyncDispose ==
  IF ctxSessionId # Null
  THEN [pc |-> "deleting", id |-> ctxSessionId]
  ELSE [pc |-> "returned", id |-> Null]

Dispose ==
  /\ disposal.pc = "none"
  /\ disposal' = asyncDispose
  /\ UNCHANGED <<ctxSessionId, ctxCalls, created, deleted>>
  /\ CtxUnchanged

\* client.sessions.delete settles; a rejection is ignored.
DeleteDone(accepted) ==
  /\ disposal.pc = "deleting"
  /\ deleted' = IF accepted THEN deleted \cup {disposal.id} ELSE deleted
  /\ disposal' = [disposal EXCEPT !.pc = IF accepted THEN "deleted" ELSE "returned"]
  /\ UNCHANGED <<ctxSessionId, ctxCalls, created>>
  /\ CtxUnchanged

InitContext == DriverNew /\ LoopNew(FALSE, 0) /\ HttpNew(3) /\ ContextNew

NextContext ==
  \/ CtxCall
  \/ \E c \in 1..MaxCtxCalls, accepted \in BOOLEAN : CreateDone(c, accepted)
  \/ \E c \in 1..MaxCtxCalls, accepted \in BOOLEAN : OperationDone(c, accepted)
  \/ Dispose
  \/ \E accepted \in BOOLEAN : DeleteDone(accepted)

SpecContext == InitContext /\ [][NextContext]_vars

\* ================================================================ claims
Range(seq) == {seq[i] : i \in 1..Len(seq)}

Alive == {p \in Runs : procs[p].status = "alive"}

LastLineIs(kind) ==
  /\ last.op = "line"
  /\ last.line.text = "json"
  /\ last.line.doc.event = kind

\* C1: when the child of a pending start() exits or fails to spawn before a
\* finished event or an unrecoverable error event was handled, the promise of
\* that start() is rejected, and for an exit the error names the exit code.
C1_ExitRejectsStart ==
  /\ (last.op = "exit" /\ ~heard[last.proc].terminal)
       => /\ promise[last.proc].status = "rejected"
          /\ last.code \in Range(promise[last.proc].error)
  /\ (last.op = "spawn_error" /\ ~heard[last.proc].terminal)
       => promise[last.proc].status = "rejected"

\* Nothing of run r is left that could still run: its child is gone, no stop()
\* call or timer is outstanding, no handler is suspended and the driver holds
\* no process or reader.
Quiet(r) ==
  /\ procs[r].status # "alive"
  /\ stops = <<>>
  /\ handlers = <<>>
  /\ reader = Null
  /\ process = Null
  /\ readline = Null

\* C2: a start() promise that was pending when stop() was called is settled
\* once stop() has completed and everything of that run has come to rest.
C2_StopSettlesStart ==
  \A r \in stopped : Quiet(r) => promise[r].status # "pending"

\* C3: a finished event handled while the start() of its process is pending
\* resolves that promise with the event's success, reason, summary and step,
\* sets currentState to finished and releases the process handle.
C3_FinishedResolvesStart ==
  (LastLineIs("finished") /\ last.pendingBefore)
    => /\ promise[last.from] = Resolved(last.line.doc)
       /\ state = "finished"
       /\ process = Null

C3_Witness ==
  /\ LastLineIs("finished")
  /\ last.pendingBefore
  /\ promise[last.from].status = "resolved"
  /\ promise[last.from].value.step = 1
  /\ ~promise[last.from].value.success

\* C4: an error event with recoverable=false sets currentState to error,
\* rejects the pending start() with an error naming the event's code and
\* message, closes the reader and releases the process handle.
C4_FatalErrorRejectsStart ==
  (LastLineIs("error") /\ ~last.line.doc.recoverable)
    => /\ state = "error"
       /\ last.pendingBefore =>
            /\ promise[last.from].status = "rejected"
            /\ {last.line.doc.code, last.line.doc.message}
                 \subseteq Range(promise[last.from].error)
       /\ readline = Null
       /\ process = Null

\* C5: start() called while an earlier start() has not settled throws.
C5_SecondStartThrows ==
  (last.op = "start" /\ last.pendingBefore) => last.threw

\* C6: at most one child process of the driver is alive.
C6_OneProcessAlive == Cardinality(Alive) <= 1

\* C7: while a confirm / ask_question listener is awaited for a line of a
\* process, no later event line of that process is handled.
C7_NoLineWhileAwaiting ==
  (last.op = "line" /\ last.awaiting) => last.line.text # "json"

\* C8: as long as no finished and no error event was handled, currentState is
\* the state of the most recent state_change event, or the waiting state of
\* the most recent confirm / ask_question event, whichever came last.
C8_StateFollowsEvents ==
  expected \notin {"none", "void"} => state = expected

C8_Witness ==
  /\ LastLineIs("state_change")
  /\ last.awaiting
  /\ expected = "paused"
  /\ state = "paused"

\* C9: every non-blank line that fails to decode makes the driver emit an
\* error event with code parse_error.
C9_ParseErrorEmitted ==
  (last.op = "line" /\ last.line.text = "garbage")
    => <<"error", "parse_error">> \in Range(emitted)

\* C10: a line that fails to decode changes nothing of the driver: state,
\* step, promise, process handle and reader are as before, so the lines after
\* it are handled as they would have been without it.
C10_BadLineChangesNothing ==
  [][(nLines' # nLines /\ last'.line.text = "garbage") => UNCHANGED driverVars]_vars

C10_Witness ==
  /\ last.op = "line"
  /\ last.line.text = "garbage"
  /\ state = "running"
  /\ process # Null
  /\ readline = process
  /\ promise[process].status = "pending"
\* C11: respondConfirm throws, writes nothing and changes no field of the
\* driver whenever the state is not waiting_confirmation or the driver holds
\* no live process; respondAnswer likewise with waiting_answer.
NoLiveProcess == process = Null \/ procs[process].status # "alive"

C11_RespondOutOfTurnThrows ==
  [][/\ (nCalls' # nCalls /\ last'.op = "respondConfirm"
          /\ (state # "waiting_confirmation" \/ NoLiveProcess))
        => (last'.threw /\ UNCHANGED driverVars)
     /\ (nCalls' # nCalls /\ last'.op = "respondAnswer"
          /\ (state # "waiting_answer" \/ NoLiveProcess))
        => (last'.threw /\ UNCHANGED driverVars)]_vars

\* A response sent out of turn to a driver that holds a process, and one sent
\* in the right state after the process went away.
C11_Witness ==
  /\ last.op \in {"respondConfirm", "respondAnswer"}
  /\ last.threw
  /\ \/ last.held /\ last.was \in {"running", "waiting_confirmation", "waiting_answer"}
     \/ ~last.held /\ last.was \in {"waiting_confirmation", "waiting_answer"}

\* C12: a listener loop writes at most one response for its event, and the
\* response carries the first value of the wanted type that a listener of the
\* loop resolved to, in registration order.
C12_FirstListenerAnswers ==
  (last.op = "listener" /\ last.wrote)
    => (~last.again /\ last.res.value = last.first)

\* C13: once the caller has responded by hand to an event, a value that a
\* listener of that event resolves to later writes no second response.
C13_NoResponseAfterManual ==
  (last.op = "listener" /\ last.manual) => ~last.wrote

\* C14: stop() on a driver that holds a process writes the stop command and
\* then waits with its timer armed; the wait always ends; when it ends by
\* the timer the process stop() was called on has exited or has been sent the
\* kill signal; and when stop() returns, by the exit or by the timer, the
\* driver holds no process handle and no reader.
StopReturns ==
  /\ (last.op = "stop" /\ ~last.noop) =>
       /\ process # Null
       /\ procs[process].stdin # <<>>
       /\ procs[process].stdin[Len(procs[process].stdin)] = [command |-> "stop"]
       /\ stops # <<>>
       /\ stops[Len(stops)].waiting
  /\ \A k \in 1..Len(stops) : stops[k].waiting => stops[k].timer
  /\ (last.op = "timer" /\ last.wasWaiting) =>
       /\ process = Null /\ readline = Null
       /\ procs[last.proc].status = "alive" => procs[last.proc].killed
  /\ (last.op = "exit" /\ last.ended) => (process = Null /\ readline = Null)

StopWaits == \E k \in 1..Len(stops) : stops[k].waiting

C14_StopCompletes == []StopReturns /\ (StopWaits ~> ~StopWaits)

\* A stop() ended by its timer with the child still running.
C14_Witness ==
  last.op = "timer" /\ last.wasWaiting /\ procs[last.proc].status = "alive"

\* C15: currentState changes only in the step that handles a state_change,
\* confirm, ask_question or finished event or an error event that is not
\* recoverable; no caller operation (start, pause, resume, stop,
\* sendScreenshot, respondConfirm, respondAnswer), no exit, timer or listener
\* continuation changes it.
StateEvent(line) ==
  /\ line.text = "json"
  /\ \/ line.doc.event \in {"state_change", "confirm", "ask_question", "finished"}
     \/ line.doc.event = "error" /\ ~line.doc.recoverable

C15_StateChangesOnlyOnEvents ==
  [][state' # state => (nLines' # nLines /\ StateEvent(last'.line))]_vars

\* A caller operation that went through on a driver whose state an event
\* had set.
C15_Witness ==
  /\ last.op \in {"respondConfirm", "respondAnswer", "pause", "resume",
                  "sendScreenshot"}
  /\ ~last.threw
  /\ last.held
  /\ state \in {"waiting_confirmation", "waiting_answer", "running"}

\* C16: a start command is written to the stdin of a process only in the step
\* that handles a ready event read from the stdout of that very process.
StartCommands(p) ==
  {i \in 1..Len(procs[p].stdin) : procs[p].stdin[i].command = "start"}

C16_StartAfterReady ==
  [][\A p \in Runs :
       StartCommands(p)' # StartCommands(p) =>
         /\ nLines' # nLines
         /\ last'.line.text = "json"
         /\ last'.line.doc.event = "ready"
         /\ last'.from = p]_vars

\* The second run has had its start command.
C16_Witness ==
  /\ LastLineIs("ready")
  /\ last.from = MaxRuns
  /\ StartCommands(MaxRuns) # {}

\* C17: the step that handles an error event with recoverable = true changes
\* nothing of the driver but the step number: the state, the promises (a
\* pending start() stays pending), the process handle, the reader, the
\* processes and the suspended handlers are as before, so the lines that
\* follow are handled as before; and when an 'error' listener is registered
\* it is notified and nothing is thrown.
RecoverableError(line) ==
  /\ line.text = "json"
  /\ line.doc.event = "error"
  /\ line.doc.recoverable

C18_ScreenshotAfterRunIsNoop ==
  (last.op = "sendScreenshot" /\ ~last.held) => (last.threw <=> ~last.started)

\* C19: a start() call of an AgentLoop does not return while the loop is
\* paused: pause() leaves the promise of start() pending.
C19_PauseKeepsStartPending ==
  lastLoop.op = "return" => loopState # "paused"

\* C20: at most one start() call of an AgentLoop is inside the step loop, and
\* a start() made while an earlier call has not returned is refused.
C20_OneLoopAtATime ==
  /\ Cardinality(Active) <= 1
  /\ (lastLoop.op = "start" /\ lastLoop.others) => lastLoop.refused

\* C21: a start() call during which stop() was called begins no further
\* iteration: it never comes to a new captureScreenshot().
C21_StopEndsTheLoop ==
  [][\A c \in 1..Len(calls) :
       (calls[c].halted /\ calls[c].pc # "capture") => calls'[c].pc # "capture"]_vars

\* C22: when a listener of a confirm event resolves to a boolean (of an
\* ask_question event, to a string), no response has been written for the
\* event yet and the driver still holds the process that printed the event,
\* the response is written, whatever lines were handled in between.
C22_ListenerValueIsWritten ==
  (/\ last.op = "listener"
   /\ last.res.type = (IF last.kind = "confirm" THEN "boolean" ELSE "string")
   /\ ~last.again
   /\ process = last.from)
    => last.wrote

\* C23: once a finished event or an error event that is not recoverable has
\* been handled for a process and its reader closed, a later line of that
\* process changes neither the state nor the step and reaches no listener.
C23_NoLineAfterTerminal ==
  [][(/\ nLines' # nLines
      /\ heard[last'.from].terminal
      /\ readline # last'.from)
       => (state' = state /\ step' = step /\ emitted' = <<>>)]_vars

\* C24: cleanup runs once for each start(): the exit or spawn-error listener
\* of a process, which runs cleanup, finds the handle of its process still
\* held, that is, no cleanup has run for that start() before.
C24_CleanupRunsOnce ==
  [][\A p \in Runs :
       (procs[p].status = "alive" /\ procs'[p].status \in {"exited", "failed"})
         => process = p]_vars

\* C25: when step() answers with askUser and no onAskUser handler was
\* configured, the start() call returns that response at once with the state
\* stopped: its actions are not executed, and a call that has returned
\* takes no further step.
C25_UnansweredQuestionStops ==
  [][/\ (/\ nResponses' # nResponses
          /\ calls'[lastLoop'.call].result.askUser
          /\ ~onAskUser)
         => (/\ calls'[lastLoop'.call].pc = "returned"
             /\ loopState' = "stopped"
             /\ calls'[lastLoop'.call].result = lastResult'
             /\ calls'[lastLoop'.call].result.step = nResponses')
     /\ \A c \in 1..Len(calls) :
          calls[c].pc = "returned" => calls'[c] = calls[c]]_vars

\* A response with a question and with actions has ended a call.
C25_Witness ==
  /\ ~onAskUser
  /\ lastLoop.op = "return"
  /\ lastLoop.from = "step"
  /\ calls[lastLoop.call].result.askUser
  /\ calls[lastLoop.call].result.actions
  /\ ~calls[lastLoop.call].result.finished
  /\ loopState = "stopped"


\* C27: when a process spawned by an earlier start() exits or fails to spawn
\* while the driver holds the process of a later start(), the later run is left
\* alone: its reader stays open, its process is not killed, and its promise
\* and the callbacks that settle it stay as they were.
C27_StaleSignalSparesLaterRun ==
  [][(/\ last'.op \in {"exit", "spawn_error"}
      /\ procs[last'.proc].status = "alive"
      /\ procs'[last'.proc].status # "alive"
      /\ process # Null
      /\ last'.proc < process)
       => (/\ process' = process
           /\ readline' = readline
           /\ procs'[process].killed = procs[process].killed
           /\ resolveStart' = resolveStart
           /\ rejectStart' = rejectStart
           /\ promise'[process] = promise[process])]_vars


\* C28: the stdin of every spawned process holds at most one start command,
\* and that command carries the goal of the start() call that spawned the
\* process (the goal of the r-th call is r).
C28_OneStartCommandPerProcess ==
  \A p \in Runs :
    /\ Cardinality(StartCommands(p)) <= 1
    /\ \A i \in StartCommands(p) : procs[p].stdin[i].goal = p


\* C29: with no 'error' listener registered, the step that handles an error
\* event with recoverable = false, read from the process the driver holds
\* while its start() is pending, still sets the state to error, rejects that
\* start(), closes the reader and releases the process handle.
C29_FatalErrorNeedsNoListener ==
  [][(/\ nLines' # nLines
      /\ last'.line.text = "json"
      /\ last'.line.doc.event = "error"
      /\ ~last'.line.doc.recoverable
      /\ listeners["error"] = 0
      /\ process = last'.from
      /\ rejectStart = last'.from)
       => (/\ state' = "error"
           /\ promise'[last'.from].status = "rejected"
           /\ readline' = Null
           /\ process' = Null)]_vars


\* C26: a request() makes at most maxRetries + 1 fetches; the attempt that
\* receives a response with a 4xx status other than 429 ends the call with a
\* throw; an attempt that receives 429 or a 5xx status, or whose fetch fails
\* or times out, is followed by a sleep and another attempt while attempts
\* are left, and by the throw of its error when none is left.
ClientError(o) ==
  o.kind = "response" /\ o.status >= 400 /\ o.status <= 499 /\ o.status # 429

Retriable(o) ==
  \/ o.kind \in {"network", "timeout"}
  \/ o.kind = "response" /\ (o.status = 429 \/ (o.status >= 500 /\ o.status <= 599))

C26_RetryPolicy ==
  [][\A c \in 1..Len(requests) :
       (requests[c].pc = "fetch" /\ requests'[c] # requests[c]) =>
         /\ requests'[c].fetches <= maxRetries + 1
         /\ ClientError(lastHttp'.outcome) => requests'[c].pc = "thrown"
         /\ Retriable(lastHttp'.outcome) =>
              IF requests[c].attempt < maxRetries
              THEN requests'[c].pc = "sleep"
              ELSE /\ requests'[c].pc = "thrown"
                   /\ requests'[c].error = attempt(lastHttp'.outcome).error]_vars


\* C30: the service never holds more than one session created for the
\* context; and once disposal has returned without a failed delete and no
\* create is in flight, every session created for the context is deleted.
C30_OneSessionPerContext ==
  /\ Cardinality(created) <= 1
  /\ (/\ disposal.pc \in {"deleted", "returned"}
      /\ disposal.id \in deleted \cup {Null}
      /\ \A c \in 1..Len(ctxCalls) : ctxCalls[c].pc # "creating")
       => created \subseteq deleted

====
